---- MODULE Spec2Model ----
(***************************************************************************)
(* The logging facility of the engine (logging/src/logger.rs): the global  *)
(* PantsLogger with its two sinks, the registry of stderr handlers, and    *)
(* the thread-/task-local log destination; and the terminal renderer that  *)
(* registers with it (ui/src/console_ui.rs): ConsoleUI and its Instance.   *)
(***************************************************************************)
EXTENDS Integers, Sequences, FiniteSets, TLC

\* ------------------------------------------------------------------ bounds
MaxThreads == 2
MaxTasks == 1
MaxNest == 2
MaxUuids == 2
MaxLogThreads == 1
MaxBars == 8
MaxHandlers == 1

Threads == 1..MaxThreads
Tasks == 1..MaxTasks
Uuids == 1..MaxUuids
LogThreads == 1..MaxLogThreads

\* ------------------------------------------------- log::LevelFilter / Level
Off == 0
Error == 1
Warn == 2
Info == 3
Debug == 4
Trace == 5

LevelFilters == {Off, Error, Warn, Info, Debug, Trace}
Levels == {Error, Warn, Info, Debug, Trace}

\* Option<T>: None is the empty sequence, Some(x) the one-element sequence.
None == <<>>
Some(x) == <<x>>
is_some(o) == o # None
unwrap(o) == o[1]

\* The numeric severities of the external configuration source and the
\* internal severity each is translated to.
PythonLogLevels == {5, 10, 20, 30, 40}
PythonLevelToFilter == (5 :> Trace) @@ (10 :> Debug) @@ (20 :> Info) @@ (30 :> Warn) @@ (40 :> Error)

\* python_level.try_into(): Ok(level) or Err.
try_into(python_level) ==
  IF python_level \in PythonLogLevels
    THEN [ok |-> TRUE, level |-> PythonLevelToFilter[python_level]]
    ELSE [ok |-> FALSE, level |-> Off]

\* super::pants_packages::PANTS_PACKAGE_NAMES
PANTS_PACKAGE_NAMES == {"engine", "logging", "ui"}

\* Destination
Pantsd == "Pantsd"
Stderr == "Stderr"
Destination == {Pantsd, Stderr}

\* The log domains (record targets) and originating module paths in play.
\* A name is the sequence of its "::"-separated segments.
Targets == {<<"hyper">>, <<"hyper", "client">>}
ModulePaths == {None, Some(<<"engine", "nodes">>), Some(<<"hyper", "client">>)}

\* The files set_pantsd_logger is asked to open, and those that can be opened.
LogFilePaths == {"pantsd.log", "/no/such/dir/pantsd.log"}
Openable == {"pantsd.log"}

VARIABLES
  max_level,                \* log::max_level(), the facility's global ceiling
  pantsd_log,               \* PantsLogger.pantsd_log
  stderr_log,               \* PantsLogger.stderr_log
  use_color,                \* PantsLogger.use_color
  show_rust_3rdparty_logs,  \* PantsLogger.show_rust_3rdparty_logs
  show_log_domain,          \* PantsLogger.show_log_domain
  stderr_handlers,          \* PantsLogger.stderr_handlers: Uuid -> StdioHandler
  log_level_filters,        \* PantsLogger.log_level_filters
  logger_set,               \* log::set_logger has installed PANTS_LOGGER
  uuid_count,               \* how many ids Uuid::new_v4() has produced
  returned,                 \* history: ids returned by register_stderr_handler
  removed,                  \* history: ids a deregister_stderr_handler call removed
  THREAD_DESTINATION,       \* thread_local: one cell per thread
  TASK_DESTINATION,         \* task_local: the cell of the key on each thread
  tasks,                    \* the futures built by scope_task_destination
  last_set,                 \* history: last value given to set_thread_destination on each thread
  instance,                 \* ConsoleUI.instance: Option<Instance>
  spawned,                  \* the executor's blocking tasks: JoinHandle -> state
  spawn_count,              \* how many tasks Executor::spawn_blocking has started
  awaiting,                 \* the ConsoleUI call suspended on a JoinHandle, if any
  pc,                       \* where each thread stands in the PantsLogger call it is in
  locks,                    \* the thread holding each Mutex of PantsLogger, 0 if none
  last                      \* the last operation and what it did outside the state

vars == <<max_level, pantsd_log, stderr_log, use_color, show_rust_3rdparty_logs,
          show_log_domain, stderr_handlers, log_level_filters, logger_set, uuid_count, returned,
          removed, THREAD_DESTINATION, TASK_DESTINATION, tasks, last_set,
          instance, spawned, spawn_count, awaiting, pc, locks, last>>

logger_config == <<max_level, pantsd_log, stderr_log, use_color, show_rust_3rdparty_logs,
                   show_log_domain, log_level_filters, logger_set>>
registry == <<stderr_handlers, uuid_count, returned, removed>>
context == <<THREAD_DESTINATION, TASK_DESTINATION, tasks, last_set>>
console_ui == <<instance, spawned, spawn_count, awaiting>>
locking == <<pc, locks>>

\* HashMap::new()
EmptyMap == [k \in {} |-> Off]

\* --------------------------------------------------------- MaybeWriteLogger
MaybeWriteLogger_empty ==
  [level |-> Off, log_domain_filters |-> EmptyMap, inner |-> None]

MaybeWriteLogger_new(writable, level, show_domain, log_domain_filters) ==
  [level |-> level,
   log_domain_filters |-> log_domain_filters,
   inner |-> Some([level |-> Trace,
                   target_level |-> IF show_domain THEN Error ELSE Off,
                   writable |-> writable])]

\* enabled() letting a domain's override replace the global threshold.
enabled_override_replaces(self, metadata) ==
  IF metadata.target \in DOMAIN self.log_domain_filters
    THEN metadata.level <= self.log_domain_filters[metadata.target]
    ELSE metadata.level <= self.level

\* MaybeWriteLogger::enabled
enabled(self, metadata) ==
  LET enabled_globally == metadata.level <= self.level
      enabled_for_log_domain ==
        IF metadata.target \in DOMAIN self.log_domain_filters
          THEN metadata.level <= self.log_domain_filters[metadata.target]
          ELSE FALSE
  IN enabled_globally \/ enabled_for_log_domain

\* MaybeWriteLogger::log without the enabled() check.
MaybeWriteLogger_log_unchecked(self, record) ==
  IF is_some(self.inner) THEN 1 ELSE 0

\* MaybeWriteLogger::log: the number of times the record is written to the
\* sink's output target (the inner WriteLogger takes every level).
MaybeWriteLogger_log(self, record) ==
  IF ~enabled(self, record)
    THEN 0
    ELSE IF is_some(self.inner) /\ record.level <= unwrap(self.inner).level THEN 1 ELSE 0

\* ------------------------------------------------------ Destination context
\* get_destination that never consults the task-local key.
get_destination_thread_only(t) ==
  THREAD_DESTINATION[t]

\* get_destination: the task-local value if the key is set at this point of
\* execution (try_with succeeds), else the thread-local one.
get_destination(t) ==
  IF is_some(TASK_DESTINATION[t])
    THEN unwrap(TASK_DESTINATION[t])
    ELSE THREAD_DESTINATION[t]

\* --------------------------------------------------------------- PantsLogger
\* PantsLogger::maybe_increase_global_verbosity: the ceiling afterwards.
maybe_increase_global_verbosity(new_level) ==
  IF max_level < new_level THEN new_level ELSE max_level

\* The allow-list filter also turning away records without a module path.
should_log_module_required(record) ==
  IF show_rust_3rdparty_logs
    THEN TRUE
    ELSE /\ is_some(record.module_path)
         /\ Head(unwrap(record.module_path)) \in PANTS_PACKAGE_NAMES

\* The allow-list filter at the head of PantsLogger::log.
should_log(record) ==
  IF show_rust_3rdparty_logs
    THEN TRUE
    ELSE IF is_some(record.module_path)
      THEN \E pants_package \in PANTS_PACKAGE_NAMES :
             Head(unwrap(record.module_path)) = pants_package
      ELSE TRUE

\* The colour PantsLogger::log gives the level marker.
level_marker(level) ==
  IF ~use_color THEN <<"clear", level>>
  ELSE IF level = Info THEN <<"normal", level>>
  ELSE IF level = Error THEN <<"red", level>>
  ELSE IF level = Warn THEN <<"red", level>>
  ELSE IF level = Debug THEN <<"green", level>>
  ELSE <<"magenta", level>>

\* The line PantsLogger::log formats for the handlers (the time is left out).
log_string(record) ==
  IF show_log_domain
    THEN <<level_marker(record.level), record.target, record.args>>
    ELSE <<level_marker(record.level), record.args>>

\* The loop over the handlers, leaving at the first failure.
RECURSIVE call_handlers_break(_, _, _, _)
call_handlers_break(ids, line, res, acc) ==
  IF ids = {} \/ acc.any_handler_failed
    THEN acc
    ELSE LET id == CHOOSE i \in ids : TRUE
         IN call_handlers_break(ids \ {id}, line, res,
              [calls |-> [acc.calls EXCEPT ![id] = Append(@, [line |-> line, ret |-> res[id]])],
               any_handler_failed |-> res[id] = "Err"])

\* The loop over the handlers, reporting failure only if all of them failed.
RECURSIVE call_handlers_all_failed(_, _, _, _)
call_handlers_all_failed(ids, line, res, acc) ==
  IF ids = {}
    THEN [acc EXCEPT !.any_handler_failed =
            DOMAIN res # {} /\ \A id \in DOMAIN res : res[id] = "Err"]
    ELSE LET id == CHOOSE i \in ids : TRUE
         IN call_handlers_all_failed(ids \ {id}, line, res,
              [calls |-> [acc.calls EXCEPT ![id] = Append(@, [line |-> line, ret |-> res[id]])],
               any_handler_failed |-> FALSE])

\* The loop over handlers_map.values(): res[id] is what the callback of id
\* returns for this line. Yields the calls each callback received (the line
\* and what it returned) and any_handler_failed.
RECURSIVE call_handlers(_, _, _, _)
call_handlers(ids, line, res, acc) ==
  IF ids = {}
    THEN acc
    ELSE LET id == CHOOSE i \in ids : TRUE
         IN call_handlers(ids \ {id}, line, res,
              [calls |-> [acc.calls EXCEPT ![id] = Append(@, [line |-> line, ret |-> res[id]])],
               any_handler_failed |-> acc.any_handler_failed \/ res[id] = "Err"])

\* Fallback conditions that drop the failure case, or hold always.
fallback_only_when_empty(len, any_handler_failed) ==
  len = 0

fallback_always(len, any_handler_failed) ==
  TRUE

\* The condition under which PantsLogger::log hands the record to stderr_log.
fallback_to_stderr(len, any_handler_failed) ==
  len = 0 \/ any_handler_failed

\* The Destination::Stderr arm of PantsLogger::log: the line is offered to
\* every handler, then the record goes to stderr_log if need be.
log_to_stderr(record, res, routed) ==
  LET line == log_string(record)
      h == call_handlers(DOMAIN stderr_handlers, line, res,
             [calls |-> routed.calls, any_handler_failed |-> FALSE])
      fb == fallback_to_stderr(Cardinality(DOMAIN stderr_handlers), h.any_handler_failed)
  IN [routed EXCEPT
        !.line = Some(line),
        !.calls = h.calls,
        !.stderr_log_calls = IF fb THEN 1 ELSE 0,
        !.stderr_written = IF fb THEN MaybeWriteLogger_log(stderr_log, record) ELSE 0]

\* The Pantsd arm doing what the Stderr arm does.
log_to_pantsd_as_stderr(record, res, routed) ==
  log_to_stderr(record, res, routed)

\* The Destination::Pantsd arm of PantsLogger::log.
log_to_pantsd(record, res, routed) ==
  [routed EXCEPT
     !.pantsd_log_calls = 1,
     !.pantsd_written = MaybeWriteLogger_log(pantsd_log, record)]

\* What one call of PantsLogger::log on thread t does with a record: which
\* handlers it calls and what it hands to and writes on each sink.
log_outcome(t, record, res) ==
  LET nothing == [op |-> "log", record |-> record, suppressed |-> TRUE,
                  destination |-> None, line |-> None,
                  handlers |-> DOMAIN stderr_handlers,
                  calls |-> [id \in DOMAIN stderr_handlers |-> <<>>],
                  stderr_log_calls |-> 0, stderr_written |-> 0,
                  pantsd_log_calls |-> 0, pantsd_written |-> 0]
  IN IF ~should_log(record)
       THEN nothing
       ELSE LET destination == get_destination(t)
                routed == [nothing EXCEPT !.suppressed = FALSE,
                                          !.destination = Some(destination)]
            IN IF destination = Stderr
                 THEN log_to_stderr(record, res, routed)
                 ELSE log_to_pantsd(record, res, routed)

NoOp(op, ret) == [op |-> op, ret |-> ret]

\* The error strings of the two sink setters.
UnrecognizedLevel == "Err: no PythonLogLevel matches the value"
ErrorOpening == "Err: Error opening pantsd logfile"

\* What a configuration call returned, with the ceiling and the sinks it found.
Reconfigured(op, args, ret) ==
  [op |-> op, args |-> args, ret |-> ret, max_level |-> max_level,
   pantsd_log |-> pantsd_log, stderr_log |-> stderr_log]

\* PantsLogger::init. A repeated call finds the logger installed and says so
\* in a debug record, which changes nothing here.
init(max, show_3rdparty, color, show_domain, log_domain_levels) ==
  IF \/ \E k \in DOMAIN log_domain_levels : ~try_into(log_domain_levels[k]).ok
     \/ ~try_into(max).ok
    THEN /\ last' = Reconfigured("init", <<max, show_3rdparty, color, show_domain, log_domain_levels>>,
                              "panic")
         /\ UNCHANGED <<logger_config, registry, context, console_ui, locking>>
    ELSE /\ max_level' = try_into(max).level
         /\ use_color' = color
         /\ show_log_domain' = show_domain
         /\ show_rust_3rdparty_logs' = show_3rdparty
         /\ log_level_filters' =
              [k \in DOMAIN log_domain_levels |-> try_into(log_domain_levels[k]).level]
         /\ logger_set' = TRUE
         /\ last' = Reconfigured("init", <<max, show_3rdparty, color, show_domain, log_domain_levels>>,
                              "Ok")
         /\ UNCHANGED <<pantsd_log, stderr_log, registry, context, console_ui, locking>>

\* set_stderr_logger dropping the sink before it looks at the level.
set_stderr_logger_empties_first(python_level) ==
  LET level == try_into(python_level)
  IN IF ~level.ok
       THEN /\ stderr_log' = MaybeWriteLogger_empty
            /\ last' = Reconfigured("set_stderr_logger", <<python_level>>, UnrecognizedLevel)
            /\ UNCHANGED <<max_level, pantsd_log, use_color, show_rust_3rdparty_logs,
                           show_log_domain, log_level_filters, logger_set, registry, context, console_ui, locking>>
       ELSE /\ max_level' = maybe_increase_global_verbosity(level.level)
            /\ stderr_log' = MaybeWriteLogger_new("stderr", level.level,
                                                  show_log_domain, log_level_filters)
            /\ last' = Reconfigured("set_stderr_logger", <<python_level>>, "Ok")
            /\ UNCHANGED <<pantsd_log, use_color, show_rust_3rdparty_logs, show_log_domain,
                           log_level_filters, logger_set, registry, context, console_ui, locking>>

\* PantsLogger::set_stderr_logger
set_stderr_logger(python_level) ==
  LET level == try_into(python_level)
  IN IF ~level.ok
       THEN /\ last' = Reconfigured("set_stderr_logger", <<python_level>>,
                                   UnrecognizedLevel)
            /\ UNCHANGED <<logger_config, registry, context, console_ui, locking>>
       ELSE /\ max_level' = maybe_increase_global_verbosity(level.level)
            /\ stderr_log' = MaybeWriteLogger_new("stderr", level.level,
                                                  show_log_domain, log_level_filters)
            /\ last' = Reconfigured("set_stderr_logger", <<python_level>>,
                                   "Ok")
            /\ UNCHANGED <<pantsd_log, use_color, show_rust_3rdparty_logs, show_log_domain,
                           log_level_filters, logger_set, registry, context, console_ui, locking>>

\* set_pantsd_logger dropping the existing sink only once the file is open.
set_pantsd_logger_keeps_sink(log_file_path, python_level) ==
  LET level == try_into(python_level)
  IN IF ~level.ok
       THEN /\ last' = Reconfigured("set_pantsd_logger", <<log_file_path, python_level>>,
                                     UnrecognizedLevel)
            /\ UNCHANGED <<logger_config, registry, context, console_ui, locking>>
       ELSE IF log_file_path \notin Openable
         THEN /\ last' = Reconfigured("set_pantsd_logger", <<log_file_path, python_level>>,
                                       ErrorOpening)
              /\ UNCHANGED <<logger_config, registry, context, console_ui, locking>>
         ELSE /\ max_level' = maybe_increase_global_verbosity(level.level)
              /\ pantsd_log' = MaybeWriteLogger_new(log_file_path, level.level,
                                                    show_log_domain, log_level_filters)
              /\ last' = Reconfigured("set_pantsd_logger", <<log_file_path, python_level>>,
                                       "Ok")
              /\ UNCHANGED <<stderr_log, use_color, show_rust_3rdparty_logs,
                             show_log_domain, log_level_filters, logger_set, registry, context, console_ui, locking>>

\* PantsLogger::set_pantsd_logger
set_pantsd_logger(log_file_path, python_level) ==
  LET level == try_into(python_level)
  IN IF ~level.ok
       THEN /\ last' = Reconfigured("set_pantsd_logger", <<log_file_path, python_level>>,
                                     UnrecognizedLevel)
            /\ UNCHANGED <<logger_config, registry, context, console_ui, locking>>
       ELSE IF log_file_path \notin Openable
         THEN /\ pantsd_log' = MaybeWriteLogger_empty
              /\ last' = Reconfigured("set_pantsd_logger", <<log_file_path, python_level>>,
                                     ErrorOpening)
              /\ UNCHANGED <<max_level, stderr_log, use_color, show_rust_3rdparty_logs,
                             show_log_domain, log_level_filters, logger_set, registry, context, console_ui, locking>>
         ELSE /\ max_level' = maybe_increase_global_verbosity(level.level)
              /\ pantsd_log' = MaybeWriteLogger_new(log_file_path, level.level,
                                                    show_log_domain, log_level_filters)
              /\ last' = Reconfigured("set_pantsd_logger", <<log_file_path, python_level>>,
                                     "Ok")
              /\ UNCHANGED <<stderr_log, use_color, show_rust_3rdparty_logs,
                             show_log_domain, log_level_filters, logger_set, registry, context, console_ui, locking>>

\* Uuid::new_v4(): an id no earlier call has produced.
new_v4 == uuid_count + 1

\* The map register_stderr_handler leaves behind.
handlers_insert(handlers, unique_id, callback) ==
  [id \in DOMAIN handlers \cup {unique_id} |->
     IF id = unique_id THEN callback ELSE handlers[id]]

\* deregister_stderr_handler clearing the map.
handlers_remove_all(handlers, unique_id) ==
  EmptyMap

\* The map deregister_stderr_handler leaves behind.
handlers_remove(handlers, unique_id) ==
  [id \in DOMAIN handlers \ {unique_id} |-> handlers[id]]

\* PantsLogger::register_stderr_handler
register_stderr_handler(callback) ==
  /\ uuid_count < MaxUuids
  /\ LET unique_id == new_v4
     IN /\ stderr_handlers' = handlers_insert(stderr_handlers, unique_id, callback)
        /\ uuid_count' = uuid_count + 1
        /\ returned' = returned \cup {unique_id}
        /\ last' = NoOp("register_stderr_handler", unique_id)
  /\ UNCHANGED <<removed, logger_config, context, console_ui, locking>>

\* PantsLogger::deregister_stderr_handler
deregister_stderr_handler(unique_id) ==
  /\ stderr_handlers' = handlers_remove(stderr_handlers, unique_id)
  /\ removed' = IF unique_id \in DOMAIN stderr_handlers
                  THEN removed \cup {unique_id} ELSE removed
  /\ last' = NoOp("deregister_stderr_handler", unique_id)
  /\ UNCHANGED <<uuid_count, returned, logger_config, context, console_ui, locking>>

\* PantsLogger::log, called on thread t
log(t, record, res) ==
  /\ last' = log_outcome(t, record, res)
  /\ UNCHANGED <<logger_config, registry, context, console_ui, locking>>

\* set_thread_destination also overwriting the task-local value in force.
set_thread_destination_and_task(t, destination) ==
  /\ THREAD_DESTINATION' = [THREAD_DESTINATION EXCEPT ![t] = destination]
  /\ TASK_DESTINATION' = [TASK_DESTINATION EXCEPT ![t] =
                             IF is_some(@) THEN Some(destination) ELSE @]
  /\ last_set' = [last_set EXCEPT ![t] = destination]
  /\ last' = NoOp("context", "Ok")
  /\ UNCHANGED <<tasks, logger_config, registry, console_ui, locking>>

\* set_thread_destination, called on thread t
set_thread_destination(t, destination) ==
  /\ THREAD_DESTINATION' = [THREAD_DESTINATION EXCEPT ![t] = destination]
  /\ last_set' = [last_set EXCEPT ![t] = destination]
  /\ last' = NoOp("context", "Ok")
  /\ UNCHANGED <<TASK_DESTINATION, tasks, logger_config, registry, console_ui, locking>>

\* ---------------------------------------------- task-local scope (tokio)
\* A future built by scope_task_destination holds, per nesting level, a slot
\* with the scoped value; each poll swaps the slot with the thread's cell of
\* the key on the way in and swaps it back on the way out.
\* thread is the thread that polled the task last (0: none yet). scoped and
\* migrated are history: the destination each scope was given, and whether
\* two different threads have polled the task.
IdleTask == [state |-> "idle", thread |-> 0, slots |-> <<>>, scoped |-> <<>>,
             migrated |-> FALSE]

running_on(t) == {k \in Tasks : tasks[k].state = "running" /\ tasks[k].thread = t}

\* Entering the scopes of a future, outermost first: swap cell and slot i.
RECURSIVE enter_scopes(_, _, _)
enter_scopes(cell, slots, i) ==
  IF i > Len(slots)
    THEN [cell |-> cell, slots |-> slots]
    ELSE enter_scopes(slots[i], [slots EXCEPT ![i] = cell], i + 1)

\* Leaving the scopes of a future, innermost first: swap cell and slot i.
RECURSIVE exit_scopes(_, _, _)
exit_scopes(cell, slots, i) ==
  IF i = 0
    THEN [cell |-> cell, slots |-> slots]
    ELSE exit_scopes(slots[i], [slots EXCEPT ![i] = cell], i - 1)

\* scope_task_destination(destination, f): the future of task k is built.
scope_task_destination(k, destination) ==
  /\ tasks[k].state = "idle"
  /\ tasks' = [tasks EXCEPT ![k] = [state |-> "suspended", thread |-> 0,
                                    slots |-> <<Some(destination)>>,
                                    scoped |-> <<destination>>,
                                    migrated |-> FALSE]]
  /\ last' = NoOp("context", "Ok")
  /\ UNCHANGED <<THREAD_DESTINATION, TASK_DESTINATION, last_set, logger_config, registry, console_ui, locking>>

\* A worker thread t polls the suspended task k (first run, resumption or
\* migration to another thread).
poll_task(k, t) ==
  /\ tasks[k].state = "suspended"
  /\ running_on(t) = {}
  /\ LET e == enter_scopes(TASK_DESTINATION[t], tasks[k].slots, 1)
     IN /\ TASK_DESTINATION' = [TASK_DESTINATION EXCEPT ![t] = e.cell]
        /\ tasks' = [tasks EXCEPT ![k].state = "running", ![k].thread = t,
                                  ![k].slots = e.slots,
                                  ![k].migrated = @ \/ tasks[k].thread \notin {0, t}]
  /\ last' = NoOp("context", "Ok")
  /\ UNCHANGED <<THREAD_DESTINATION, last_set, logger_config, registry, console_ui, locking>>

\* The running task k returns Pending: its poll unwinds off the thread.
suspend_task(k) ==
  /\ tasks[k].state = "running"
  /\ LET t == tasks[k].thread
         e == exit_scopes(TASK_DESTINATION[t], tasks[k].slots, Len(tasks[k].slots))
     IN /\ TASK_DESTINATION' = [TASK_DESTINATION EXCEPT ![t] = e.cell]
        /\ tasks' = [tasks EXCEPT ![k].state = "suspended", ![k].slots = e.slots]
  /\ last' = NoOp("context", "Ok")
  /\ UNCHANGED <<THREAD_DESTINATION, last_set, logger_config, registry, console_ui, locking>>

\* The running task k awaits a nested scope_task_destination(destination, g).
enter_nested_scope(k, destination) ==
  /\ tasks[k].state = "running"
  /\ Len(tasks[k].slots) < MaxNest
  /\ LET t == tasks[k].thread
     IN /\ TASK_DESTINATION' = [TASK_DESTINATION EXCEPT ![t] = Some(destination)]
        /\ tasks' = [tasks EXCEPT ![k].slots = Append(@, TASK_DESTINATION[t]),
                                  ![k].scoped = Append(@, destination)]
  /\ last' = NoOp("context", "Ok")
  /\ UNCHANGED <<THREAD_DESTINATION, last_set, logger_config, registry, console_ui, locking>>

\* The innermost scoped future of the running task k completes; with the
\* outermost one the task itself completes.
complete_scope(k) ==
  /\ tasks[k].state = "running"
  /\ LET t == tasks[k].thread
         n == Len(tasks[k].slots)
     IN /\ TASK_DESTINATION' = [TASK_DESTINATION EXCEPT ![t] = tasks[k].slots[n]]
        /\ tasks' = [tasks EXCEPT ![k] =
                       IF n = 1
                         THEN IdleTask
                         ELSE [@ EXCEPT !.slots = SubSeq(@, 1, n - 1),
                                        !.scoped = SubSeq(@, 1, n - 1)]]
  /\ last' = NoOp("complete_scope", <<tasks[k].thread, tasks[k].scoped[Len(tasks[k].scoped)]>>)
  /\ UNCHANGED <<THREAD_DESTINATION, last_set, logger_config, registry, console_ui, locking>>

\* ------------------------------------------- PantsLogger, lock by lock
\* The calls of PantsLogger again, each cut at its Mutex::lock() calls: a
\* thread waits for the Mutexes it has still to take, in the order of the
\* code, and runs the code that follows once it holds them.
Mutexes == {"pantsd_log", "stderr_log", "stderr_handlers", "log_level_filters"}

Idle == [op |-> "idle", at |-> "idle", args |-> <<>>, to_lock |-> <<>>, then |-> ""]

\* Thread t is in op at the position at.
At(t, op, at) == pc[t].op = op /\ pc[t].at = at

\* Thread t enters op and goes for the Mutexes of to_lock, then to the
\* position then.
enter(t, op, args, to_lock, then) ==
  [pc EXCEPT ![t] = [Idle EXCEPT !.op = op, !.args = args, !.at = "lock",
                                 !.to_lock = to_lock, !.then = then]]

\* Thread t, within its call, goes for the Mutexes of to_lock.
wait(t, to_lock, then) ==
  [pc EXCEPT ![t].at = "lock", ![t].to_lock = to_lock, ![t].then = then]

return(t) == [pc EXCEPT ![t] = Idle]

\* The guards of the Mutexes of dropped go out of scope.
release(dropped) == [l \in Mutexes |-> IF l \in dropped THEN 0 ELSE locks[l]]

\* A reentrant lock: the thread that holds the Mutex may take it again.
acquire_reentrant(t) ==
  /\ pc[t].at = "lock"
  /\ locks[Head(pc[t].to_lock)] \in {0, t}
  /\ locks' = [locks EXCEPT ![Head(pc[t].to_lock)] = t]
  /\ pc' = IF Len(pc[t].to_lock) = 1
             THEN [pc EXCEPT ![t].at = pc[t].then, ![t].to_lock = <<>>]
             ELSE [pc EXCEPT ![t].to_lock = Tail(@)]
  /\ UNCHANGED <<last, logger_config, registry, context, console_ui>>

\* Mutex::lock() (parking_lot, not reentrant): thread t takes the next Mutex
\* it waits for once no thread holds it, itself included.
acquire(t) ==
  /\ pc[t].at = "lock"
  /\ locks[Head(pc[t].to_lock)] = 0
  /\ locks' = [locks EXCEPT ![Head(pc[t].to_lock)] = t]
  /\ pc' = IF Len(pc[t].to_lock) = 1
             THEN [pc EXCEPT ![t].at = pc[t].then, ![t].to_lock = <<>>]
             ELSE [pc EXCEPT ![t].to_lock = Tail(@)]
  /\ UNCHANGED <<last, logger_config, registry, context, console_ui>>

\* PantsLogger::log up to its first lock
log_enter(t, record) ==
  /\ pc[t] = Idle
  /\ pc' = IF ~should_log(record)
             THEN pc
             ELSE IF get_destination(t) = Stderr
               THEN enter(t, "log", <<record>>, <<"stderr_handlers">>, "callbacks")
               ELSE enter(t, "log", <<record>>, <<"pantsd_log">>, "pantsd_write")
  /\ UNCHANGED <<last, locks, logger_config, registry, context, console_ui>>

\* any_handler_failed after the loop over the callbacks, res[id] being what
\* the callback of id returned.
any_handler_failed(res) == \E id \in DOMAIN res : res[id] = "Err"

\* A callback calls back into the logger (register_stderr_handler,
\* deregister_stderr_handler or log for the Stderr destination): the first
\* thing each of them does is stderr_handlers.lock().
log_callback_reenters(t, id) ==
  /\ At(t, "log", "callbacks")
  /\ id \in DOMAIN stderr_handlers
  /\ pc' = wait(t, <<"stderr_handlers">>, "reentered")
  /\ UNCHANGED <<last, locks, logger_config, registry, context, console_ui>>

\* The loop over handlers_map.values(): every callback is called and returns
\* res[id]; then the fallback to stderr_log, or the end of the block and of
\* the guard of stderr_handlers.
log_callbacks(t, res) ==
  /\ At(t, "log", "callbacks")
  /\ IF fallback_to_stderr(Cardinality(DOMAIN stderr_handlers),
                           any_handler_failed(res))
       THEN /\ pc' = wait(t, <<"stderr_log">>, "stderr_write")
            /\ UNCHANGED locks
       ELSE /\ pc' = return(t)
            /\ locks' = release({"stderr_handlers"})
  /\ UNCHANGED <<last, logger_config, registry, context, console_ui>>

\* self.stderr_log.lock().log(record), inside the block of the handlers.
log_stderr_write(t) ==
  /\ At(t, "log", "stderr_write")
  /\ pc' = return(t)
  /\ locks' = release({"stderr_log", "stderr_handlers"})
  /\ UNCHANGED <<last, logger_config, registry, context, console_ui>>

\* self.pantsd_log.lock().log(record)
log_pantsd_write(t) ==
  /\ At(t, "log", "pantsd_write")
  /\ pc' = return(t)
  /\ locks' = release({"pantsd_log"})
  /\ UNCHANGED <<last, logger_config, registry, context, console_ui>>

\* Calls of register_stderr_handler that have not returned.
Registering == {u \in Threads : pc[u].op = "register_stderr_handler"}

\* PantsLogger::register_stderr_handler up to its lock
register_enter(t, callback) ==
  /\ pc[t] = Idle
  /\ uuid_count + Cardinality(Registering) < MaxHandlers
  /\ pc' = enter(t, "register_stderr_handler", <<callback>>, <<"stderr_handlers">>, "insert")
  /\ UNCHANGED <<last, locks, logger_config, registry, context, console_ui>>

\* PantsLogger::register_stderr_handler under its lock
register_insert(t) ==
  /\ At(t, "register_stderr_handler", "insert")
  /\ uuid_count' = uuid_count + 1
  /\ stderr_handlers' = handlers_insert(stderr_handlers, new_v4, pc[t].args[1])
  /\ returned' = returned \cup {new_v4}
  /\ pc' = return(t)
  /\ locks' = release({"stderr_handlers"})
  /\ UNCHANGED <<last, removed, logger_config, context, console_ui>>

\* PantsLogger::deregister_stderr_handler up to its lock
deregister_enter(t, unique_id) ==
  /\ pc[t] = Idle
  /\ pc' = enter(t, "deregister_stderr_handler", <<unique_id>>, <<"stderr_handlers">>, "remove")
  /\ UNCHANGED <<last, locks, logger_config, registry, context, console_ui>>

\* PantsLogger::deregister_stderr_handler under its lock
deregister_remove(t) ==
  /\ At(t, "deregister_stderr_handler", "remove")
  /\ stderr_handlers' = handlers_remove(stderr_handlers, pc[t].args[1])
  /\ removed' = IF pc[t].args[1] \in DOMAIN stderr_handlers
                  THEN removed \cup {pc[t].args[1]}
                  ELSE removed
  /\ pc' = return(t)
  /\ locks' = release({"stderr_handlers"})
  /\ UNCHANGED <<last, uuid_count, returned, logger_config, context, console_ui>>

\* PantsLogger::init up to log_level_filters.lock(); it panics before it
\* changes anything if a level is not recognized.
init_enter(t, max, show_3rdparty, color, show_domain, log_domain_levels) ==
  /\ pc[t] = Idle
  /\ IF \/ \E k \in DOMAIN log_domain_levels : ~try_into(log_domain_levels[k]).ok
        \/ ~try_into(max).ok
       THEN UNCHANGED <<pc, max_level, use_color, show_log_domain, show_rust_3rdparty_logs>>
       ELSE /\ max_level' = try_into(max).level
            /\ use_color' = color
            /\ show_log_domain' = show_domain
            /\ show_rust_3rdparty_logs' = show_3rdparty
            /\ pc' = enter(t, "init", <<log_domain_levels>>, <<"log_level_filters">>, "replace")
  /\ UNCHANGED <<last, locks, pantsd_log, stderr_log, log_level_filters, logger_set,
                 registry, context, console_ui>>

\* PantsLogger::init: log_level_filters.lock().replace(..), whose guard ends
\* with the statement, then set_logger. (The debug! of a second init is
\* above the ceiling init has just set and logs nothing.)
init_replace(t) ==
  /\ At(t, "init", "replace")
  /\ log_level_filters' =
       [k \in DOMAIN pc[t].args[1] |-> try_into(pc[t].args[1][k]).level]
  /\ logger_set' = TRUE
  /\ pc' = return(t)
  /\ locks' = release({"log_level_filters"})
  /\ UNCHANGED <<last, max_level, pantsd_log, stderr_log, use_color, show_rust_3rdparty_logs,
                 show_log_domain, registry, context, console_ui>>

\* PantsLogger::set_stderr_logger up to its locks: the value assigned is
\* evaluated first, with log_level_filters.lock(), whose guard lives to the
\* end of the statement; then the place, stderr_log.lock().
set_stderr_enter(t, python_level) ==
  /\ pc[t] = Idle
  /\ IF ~try_into(python_level).ok
       THEN UNCHANGED <<pc, max_level>>
       ELSE /\ max_level' = maybe_increase_global_verbosity(try_into(python_level).level)
            /\ pc' = enter(t, "set_stderr_logger", <<python_level>>,
                           <<"log_level_filters", "stderr_log">>, "install")
  /\ UNCHANGED <<last, locks, pantsd_log, stderr_log, use_color, show_rust_3rdparty_logs,
                 show_log_domain, log_level_filters, logger_set, registry, context,
                 console_ui>>

\* PantsLogger::set_stderr_logger: the assignment under both locks
set_stderr_install(t) ==
  /\ At(t, "set_stderr_logger", "install")
  /\ stderr_log' = MaybeWriteLogger_new("stderr", try_into(pc[t].args[1]).level,
                                        show_log_domain, log_level_filters)
  /\ pc' = return(t)
  /\ locks' = release({"log_level_filters", "stderr_log"})
  /\ UNCHANGED <<last, max_level, pantsd_log, use_color, show_rust_3rdparty_logs,
                 show_log_domain, log_level_filters, logger_set, registry, context,
                 console_ui>>

\* PantsLogger::set_pantsd_logger up to the first pantsd_log.lock()
set_pantsd_enter(t, log_file_path, python_level) ==
  /\ pc[t] = Idle
  /\ pc' = IF ~try_into(python_level).ok
             THEN pc
             ELSE enter(t, "set_pantsd_logger", <<log_file_path, python_level, pantsd_log>>,
                        <<"pantsd_log">>, "drop")
  /\ UNCHANGED <<last, locks, logger_config, registry, context, console_ui>>

\* set_pantsd_logger leaving the existing logger in place until the new one
\* is installed.
set_pantsd_drop_keeps(t) ==
  /\ At(t, "set_pantsd_logger", "drop")
  /\ IF pc[t].args[1] \in Openable
       THEN /\ max_level' = maybe_increase_global_verbosity(try_into(pc[t].args[2]).level)
            /\ pc' = wait(t, <<"log_level_filters", "pantsd_log">>, "install")
       ELSE /\ pc' = return(t)
            /\ UNCHANGED max_level
  /\ locks' = release({"pantsd_log"})
  /\ UNCHANGED <<last, pantsd_log, stderr_log, use_color, show_rust_3rdparty_logs,
                 show_log_domain, log_level_filters, logger_set, registry, context,
                 console_ui>>

\* PantsLogger::set_pantsd_logger: the existing logger is dropped and its
\* guard with it; then the file is opened, or not, with no lock held.
set_pantsd_drop(t) ==
  /\ At(t, "set_pantsd_logger", "drop")
  /\ pantsd_log' = MaybeWriteLogger_empty
  /\ IF pc[t].args[1] \in Openable
       THEN /\ max_level' = maybe_increase_global_verbosity(try_into(pc[t].args[2]).level)
            /\ pc' = wait(t, <<"log_level_filters", "pantsd_log">>, "install")
       ELSE /\ pc' = return(t)
            /\ UNCHANGED max_level
  /\ locks' = release({"pantsd_log"})
  /\ UNCHANGED <<last, stderr_log, use_color, show_rust_3rdparty_logs,
                 show_log_domain, log_level_filters, logger_set, registry, context,
                 console_ui>>

\* PantsLogger::set_pantsd_logger: the assignment under both locks
set_pantsd_install(t) ==
  /\ At(t, "set_pantsd_logger", "install")
  /\ pantsd_log' = MaybeWriteLogger_new(pc[t].args[1], try_into(pc[t].args[2]).level,
                                        show_log_domain, log_level_filters)
  /\ pc' = return(t)
  /\ locks' = release({"log_level_filters", "pantsd_log"})
  /\ UNCHANGED <<last, max_level, stderr_log, use_color, show_rust_3rdparty_logs,
                 show_log_domain, log_level_filters, logger_set, registry, context,
                 console_ui>>

\* PantsLogger::flush up to its first lock
flush_enter(t) ==
  /\ pc[t] = Idle
  /\ pc' = enter(t, "flush", <<>>, <<"stderr_log">>, "flush_stderr")
  /\ UNCHANGED <<last, locks, logger_config, registry, context, console_ui>>

\* self.stderr_log.lock().flush();
flush_stderr(t) ==
  /\ At(t, "flush", "flush_stderr")
  /\ locks' = release({"stderr_log"})
  /\ pc' = wait(t, <<"pantsd_log">>, "flush_pantsd")
  /\ UNCHANGED <<last, logger_config, registry, context, console_ui>>

\* self.pantsd_log.lock().flush();
flush_pantsd(t) ==
  /\ At(t, "flush", "flush_pantsd")
  /\ locks' = release({"pantsd_log"})
  /\ pc' = return(t)
  /\ UNCHANGED <<last, logger_config, registry, context, console_ui>>

\* ------------------------------------------------------ ConsoleUI (ui crate)
\* indexmap::IndexMap<String, Option<Duration>> as the sequence of its
\* <<key, value>> entries in iteration order.
contains_key(map, key) == \E i \in 1..Len(map) : map[i][1] = key
get_index_of(map, key) == CHOOSE i \in 1..Len(map) : map[i][1] = key
keys(map) == {map[i][1] : i \in 1..Len(map)}
get(map, key) == map[get_index_of(map, key)][2]

\* IndexMap::insert: an existing key keeps its place and takes the value, a
\* new key goes to the end.
insert(map, key, value) ==
  IF contains_key(map, key)
    THEN [map EXCEPT ![get_index_of(map, key)] = <<key, value>>]
    ELSE Append(map, <<key, value>>)

\* IndexMap::extend: insert every entry of the iterator in turn.
RECURSIVE extend(_, _)
extend(map, entries) ==
  IF entries = <<>>
    THEN map
    ELSE extend(insert(map, Head(entries)[1], Head(entries)[2]), Tail(entries))

\* IndexMap::swap_remove: the last entry takes the place of the removed one.
swap_remove(map, key) ==
  IF ~contains_key(map, key)
    THEN map
    ELSE LET i == get_index_of(map, key)
             n == Len(map)
         IN [j \in 1..(n - 1) |-> IF j = i THEN map[n] ELSE map[j]]

\* render's pruning loop: over a clone of the map, swap_remove every task the
\* poll does not contain.
RECURSIVE prune(_, _, _)
prune(map, clone, heavy_hitters) ==
  IF clone = <<>>
    THEN map
    ELSE prune(IF contains_key(heavy_hitters, Head(clone)[1])
                 THEN map
                 ELSE swap_remove(map, Head(clone)[1]),
               Tail(clone), heavy_hitters)

\* render without the pruning loop.
tasks_after_poll_unpruned(tasks_to_display, heavy_hitters) ==
  extend(tasks_to_display, heavy_hitters)

\* tasks_to_display after render's extend and pruning loop.
tasks_after_poll(tasks_to_display, heavy_hitters) ==
  LET extended == extend(tasks_to_display, heavy_hitters)
  IN prune(extended, extended, heavy_hitters)

max_displayed_swimlanes == 8

\* format!("{:.2}s ", millis / 1000.0): seconds and hundredths, rounded.
duration_label(maybe_duration) ==
  IF maybe_duration = None
    THEN <<"(Waiting) ">>
    ELSE LET hundredths == (unwrap(maybe_duration) + 5) \div 10
         IN <<hundredths \div 100, ".", hundredths % 100, "s ">>

\* ConsoleUI::get_label_from_heavy_hitters
get_label_from_heavy_hitters(tasks_to_display) ==
  [i \in 1..Len(tasks_to_display) |->
     <<duration_label(tasks_to_display[i][2]), tasks_to_display[i][1]>>]

\* Vec::remove(n), n counted from 0.
vec_remove(v, n) == [j \in 1..(Len(v) - 1) |-> IF j <= n THEN v[j] ELSE v[j + 1]]

\* render's first loop from position n (counted from 0) on: a swimlane is
\* pushed while n <= bars.len(), else bars[n] is given the label; an index
\* past the end panics.
RECURSIVE update_bars(_, _, _)
update_bars(bars, swimlane_labels, n) ==
  IF n >= Len(swimlane_labels)
    THEN [bars |-> bars, ret |-> "Ok"]
    ELSE IF n <= Len(bars)
      THEN update_bars(Append(bars, swimlane_labels[n + 1]), swimlane_labels, n + 1)
      ELSE IF n >= Len(bars)
        THEN [bars |-> bars, ret |-> "panic"]
        ELSE update_bars([bars EXCEPT ![n + 1] = swimlane_labels[n + 1]],
                         swimlane_labels, n + 1)

\* render's second loop from n on: bars.remove(n) for n up to
\* max_displayed_swimlanes; an index past the end panics. multi_progress
\* holds the same swimlanes in the same order.
RECURSIVE remove_bars(_, _)
remove_bars(bars, n) ==
  IF n >= max_displayed_swimlanes
    THEN [bars |-> bars, ret |-> "Ok"]
    ELSE IF n >= Len(bars)
      THEN [bars |-> bars, ret |-> "panic"]
      ELSE remove_bars(vec_remove(bars, n), n + 1)

\* What a ConsoleUI call returned, with the state it was called in.
Called(op, args, ret) ==
  [op |-> op, args |-> args, ret |-> ret, awaited |-> None, instance |-> instance,
   stderr_handlers |-> stderr_handlers, spawn_count |-> spawn_count]

MultipleUIs == "Err: A ConsoleUI cannot render multiple UIs concurrently."
FailedToRender == "Err: Failed to render UI"

\* initialize going ahead whether or not an Instance exists.
initialize_unguarded(stderr_handler) ==
  /\ awaiting = None
  /\ uuid_count < MaxUuids
  /\ spawn_count' = spawn_count + 1
  /\ spawned' = handlers_insert(spawned, spawn_count + 1, "running")
  /\ uuid_count' = new_v4
  /\ stderr_handlers' = handlers_insert(stderr_handlers, new_v4, stderr_handler)
  /\ returned' = returned \cup {new_v4}
  /\ instance' = Some([tasks_to_display |-> <<>>,
                       multi_progress_task |-> spawn_count + 1,
                       bars |-> <<>>,
                       logger_handle |-> new_v4])
  /\ last' = Called("initialize", <<stderr_handler>>, "Ok")
  /\ UNCHANGED <<removed, awaiting, logger_config, context, locking>>

\* ConsoleUI::initialize
initialize(stderr_handler) ==
  /\ awaiting = None
  /\ IF is_some(instance)
       THEN /\ last' = Called("initialize", <<stderr_handler>>, MultipleUIs)
            /\ UNCHANGED <<console_ui, logger_config, registry, context, locking>>
       ELSE /\ uuid_count < MaxUuids
            /\ spawn_count' = spawn_count + 1
            /\ spawned' = handlers_insert(spawned, spawn_count + 1, "running")
            /\ uuid_count' = new_v4
            /\ stderr_handlers' = handlers_insert(stderr_handlers, new_v4, stderr_handler)
            /\ returned' = returned \cup {new_v4}
            /\ instance' = Some([tasks_to_display |-> <<>>,
                                 multi_progress_task |-> spawn_count + 1,
                                 bars |-> <<>>,
                                 logger_handle |-> new_v4])
            /\ last' = Called("initialize", <<stderr_handler>>, "Ok")
            /\ UNCHANGED <<removed, awaiting, logger_config, context, locking>>

\* ConsoleUI::render with the result of workunit_store.heavy_hitters(8). A
\* panic in one of the two loops leaves what was done before it.
render(heavy_hitters) ==
  /\ awaiting = None
  /\ IF ~is_some(instance)
       THEN /\ last' = [op |-> "render", args |-> <<>>, ret |-> "Ok"]
            /\ UNCHANGED instance
       ELSE LET i == unwrap(instance)
                tasks_to_display == tasks_after_poll(i.tasks_to_display, heavy_hitters)
                swimlane_labels == get_label_from_heavy_hitters(tasks_to_display)
                updated == update_bars(i.bars, swimlane_labels, 0)
                removed_bars == IF updated.ret = "Ok"
                                  THEN remove_bars(updated.bars, Len(swimlane_labels))
                                  ELSE updated
            IN /\ instance' = Some([i EXCEPT !.tasks_to_display = tasks_to_display,
                                             !.bars = removed_bars.bars])
               /\ last' = [op |-> "render", args |-> <<heavy_hitters>>,
                           ret |-> removed_bars.ret]
  /\ UNCHANGED <<spawned, spawn_count, awaiting, logger_config, registry, context, locking>>

\* teardown keeping the interceptor of the Instance it takes registered.
teardown_from_keeps_handler(op, args) ==
  LET i == unwrap(instance)
  IN /\ instance' = None
     /\ awaiting' = Some([op |-> op, args |-> args, task |-> i.multi_progress_task])
     /\ last' = [op |-> op, args |-> args, ret |-> "Pending",
                 logger_handle |-> i.logger_handle, stderr_handlers |-> stderr_handlers]
     /\ UNCHANGED <<registry, spawned, spawn_count, logger_config, context, locking>>

\* The body of ConsoleUI::teardown on an Instance, called from op: the
\* Instance is taken and its interceptor deregistered at once, the future
\* that is returned resolves with the background task.
teardown_from(op, args) ==
  LET i == unwrap(instance)
  IN /\ instance' = None
     /\ stderr_handlers' = handlers_remove(stderr_handlers, i.logger_handle)
     /\ removed' = IF i.logger_handle \in DOMAIN stderr_handlers
                     THEN removed \cup {i.logger_handle}
                     ELSE removed
     /\ awaiting' = Some([op |-> op, args |-> args, task |-> i.multi_progress_task])
     /\ last' = [op |-> op, args |-> args, ret |-> "Pending",
                 logger_handle |-> i.logger_handle, stderr_handlers |-> stderr_handlers]
     /\ UNCHANGED <<uuid_count, returned, spawned, spawn_count, logger_config, context, locking>>

\* teardown refusing to run without an Instance.
teardown_requires_instance ==
  /\ awaiting = None
  /\ IF is_some(instance)
       THEN teardown_from("teardown", <<>>)
       ELSE /\ last' = Called("teardown", <<>>, FailedToRender)
            /\ UNCHANGED <<console_ui, logger_config, registry, context, locking>>

\* ConsoleUI::teardown
teardown ==
  /\ awaiting = None
  /\ IF is_some(instance)
       THEN teardown_from("teardown", <<>>)
       ELSE /\ last' = Called("teardown", <<>>, "Ok")
            /\ UNCHANGED <<console_ui, logger_config, registry, context, locking>>

\* ConsoleUI::write_stdout
write_stdout(msg) ==
  /\ awaiting = None
  /\ IF is_some(instance)
       THEN teardown_from("write_stdout", <<msg>>)
       ELSE /\ last' = [Called("write_stdout", <<msg>>, "Ok") EXCEPT !.ret = <<"Ok", "print", msg>>]
            /\ UNCHANGED <<console_ui, logger_config, registry, context, locking>>

\* ConsoleUI::write_stderr
write_stderr(msg) ==
  /\ awaiting = None
  /\ last' = Called("write_stderr", <<msg>>,
                    IF is_some(instance)
                      THEN IF unwrap(instance).bars = <<>>
                             THEN "panic"
                             ELSE <<"Ok", "println", msg>>
                      ELSE <<"Ok", "eprint", msg>>)
  /\ UNCHANGED <<console_ui, logger_config, registry, context, locking>>

\* ConsoleUI::with_console_ui_disabled
with_console_ui_disabled(f) ==
  /\ awaiting = None
  /\ IF is_some(instance)
       THEN teardown_from("with_console_ui_disabled", <<f>>)
       ELSE /\ last' = Called("with_console_ui_disabled", <<f>>, <<"Ok", "called", f>>)
            /\ UNCHANGED <<console_ui, logger_config, registry, context, locking>>

\* The closure given to spawn_blocking returns: multi_progress.join() is over,
\* with or without an I/O error.
multi_progress_join(task, res) ==
  /\ task \in DOMAIN spawned
  /\ spawned[task] = "running"
  /\ spawned' = [spawned EXCEPT ![task] = res]
  /\ UNCHANGED <<instance, spawn_count, awaiting, last, logger_config, registry, context, locking>>

\* The future returned by teardown resolves, and the call that awaits it
\* goes on: teardown returns the result, write_stdout returns an error or
\* prints, with_console_ui_disabled unwraps the result and calls f.
teardown_resolves ==
  /\ is_some(awaiting)
  /\ LET a == unwrap(awaiting)
         res == IF spawned[a.task] = "Ok" THEN "Ok" ELSE FailedToRender
     IN /\ spawned[a.task] # "running"
        /\ spawned' = handlers_remove(spawned, a.task)
        /\ awaiting' = None
        /\ last' = [op |-> a.op, args |-> a.args, awaited |-> Some(a.task),
                    result |-> spawned[a.task],
                    ret |-> CASE a.op = "teardown" -> res
                              [] a.op = "write_stdout" ->
                                   IF res = "Ok" THEN <<"Ok", "print", a.args[1]>> ELSE res
                              [] OTHER ->
                                   IF res = "Ok" THEN <<"Ok", "called", a.args[1]>> ELSE "panic",
                    instance |-> instance, stderr_handlers |-> stderr_handlers,
                    spawn_count |-> spawn_count]
  /\ UNCHANGED <<instance, spawn_count, logger_config, registry, context, locking>>

\* -------------------------------------------------------------------- Init
Init ==
  /\ max_level = Off
  /\ pantsd_log = MaybeWriteLogger_empty
  /\ stderr_log = MaybeWriteLogger_empty
  /\ show_rust_3rdparty_logs = TRUE
  /\ use_color = FALSE
  /\ show_log_domain = FALSE
  /\ stderr_handlers = EmptyMap
  /\ log_level_filters = EmptyMap
  /\ logger_set = FALSE
  /\ uuid_count = 0
  /\ returned = {}
  /\ removed = {}
  /\ THREAD_DESTINATION = [t \in Threads |-> Stderr]
  /\ TASK_DESTINATION = [t \in Threads |-> None]
  /\ tasks = [k \in Tasks |-> IdleTask]
  /\ last_set = [t \in Threads |-> Stderr]
  /\ instance = None
  /\ spawned = EmptyMap
  /\ spawn_count = 0
  /\ awaiting = None
  /\ pc = [t \in Threads |-> Idle]
  /\ locks = [l \in Mutexes |-> 0]
  /\ last = NoOp("new", "Ok")

\* ------------------------------------------- Spec: routing of log records
\* The configurations init is called with, as
\* <<max_level, show_rust_3rdparty_logs, use_color, show_log_domain, log_domain_levels>>.
InitArgs ==
  { <<20, TRUE, FALSE, FALSE, EmptyMap>>,
    <<30, FALSE, TRUE, TRUE, (<<"hyper">> :> 10)>>,
    <<7, TRUE, FALSE, FALSE, EmptyMap>> }

StderrLevelArgs == {30, 7}
PantsdLevelArgs == {30}
StdioHandlers == {"handler"}
Results == {"Ok", "Err"}

Records ==
  [level : {Error, Debug}, target : Targets, module_path : ModulePaths, args : {"msg"}]

Next ==
  \/ \E a \in InitArgs : init(a[1], a[2], a[3], a[4], a[5])
  \/ \E l \in StderrLevelArgs : set_stderr_logger(l)
  \/ \E p \in LogFilePaths, l \in PantsdLevelArgs : set_pantsd_logger(p, l)
  \/ \E c \in StdioHandlers : register_stderr_handler(c)
  \/ \E id \in Uuids : deregister_stderr_handler(id)
  \/ \E t \in LogThreads, d \in Destination : set_thread_destination(t, d)
  \/ \E t \in LogThreads, r \in Records, res \in [DOMAIN stderr_handlers -> Results] :
       log(t, r, res)

Spec == Init /\ [][Next]_vars

\* --------------------------------- SpecDest: the destination of a log call
NextDest ==
  \/ \E t \in Threads, d \in Destination : set_thread_destination(t, d)
  \/ \E k \in Tasks, d \in Destination : scope_task_destination(k, d)
  \/ \E k \in Tasks, t \in Threads : poll_task(k, t)
  \/ \E k \in Tasks : suspend_task(k)
  \/ \E k \in Tasks, d \in Destination : enter_nested_scope(k, d)
  \/ \E k \in Tasks : complete_scope(k)

SpecDest == Init /\ [][NextDest]_vars

\* ------------------------------------- SpecSink: what a sink lets through
\* The sinks are configured at every threshold, with overrides more and less
\* verbose than it, and records of every level are logged; no handler is
\* registered.
SinkInitArgs ==
  { <<max, TRUE, FALSE, FALSE, levels>> :
      max \in {40, 10},
      levels \in {EmptyMap, (<<"hyper">> :> 10), (<<"hyper">> :> 40), (<<"hyper">> :> 7)} }

SinkStderrLevelArgs == {40, 20, 5, 7}
SinkPantsdLevelArgs == {20, 7}

SinkRecords ==
  [level : Levels, target : Targets \cup {<<"engine">>}, module_path : {None}, args : {"msg"}]

NextSink ==
  \/ \E a \in SinkInitArgs : init(a[1], a[2], a[3], a[4], a[5])
  \/ \E l \in SinkStderrLevelArgs : set_stderr_logger(l)
  \/ \E p \in LogFilePaths, l \in SinkPantsdLevelArgs : set_pantsd_logger(p, l)
  \/ \E t \in LogThreads, d \in Destination : set_thread_destination(t, d)
  \/ \E t \in LogThreads, r \in SinkRecords, res \in [DOMAIN stderr_handlers -> Results] :
       log(t, r, res)

SpecSink == Init /\ [][NextSink]_vars

\* --------------------------------------------- the polls of a render tick
\* What workunit_store.heavy_hitters(max_displayed_swimlanes) may return: at
\* most that many entries with distinct labels, in the order the render
\* iterates them. The two full polls differ in one label.
FullLabels == <<"w1", "w2", "w3", "w4", "w5", "w6", "w7", "w8", "w9">>

SmallPolls ==
  { <<>>,
    << <<"a", None>>, <<"b", None>> >>,
    << <<"b", None>>, <<"a", Some(1234)>> >>,
    << <<"b", None>>, <<"c", None>> >>,
    << <<"a", None>>, <<"b", None>>, <<"c", None>> >> }

FullPolls ==
  { [i \in 1..max_displayed_swimlanes |-> <<FullLabels[i + k], None>>] : k \in 0..1 }

HeavyHitters == SmallPolls \cup FullPolls

\* A render that finds no more widgets than the bound.
render_bounded(heavy_hitters) ==
  /\ is_some(instance) => Len(unwrap(instance).bars) <= MaxBars
  /\ render(heavy_hitters)

\* ------------------------------------------ SpecUI: one ConsoleUI at work
\* Its polls: two workunits, then the first of them gone.
UIPolls ==
  { << <<"a", None>>, <<"b", None>> >>,
    << <<"b", Some(1234)>> >> }

\* Another part of the program registers interceptors of its own.
NextUI ==
  \/ \E c \in StdioHandlers : register_stderr_handler(c)
  \/ initialize("ui_handler")
  \/ \E h \in UIPolls : render_bounded(h)
  \/ teardown
  \/ write_stdout("msg")
  \/ write_stderr("msg")
  \/ with_console_ui_disabled("f")
  \/ \E t \in DOMAIN spawned, res \in Results : multi_progress_join(t, res)
  \/ teardown_resolves

SpecUI == Init /\ [][NextUI]_vars

\* ------------------------------------ SpecRender: the ticks of one session
NextRender ==
  \/ initialize("ui_handler")
  \/ \E h \in HeavyHitters : render_bounded(h)

SpecRender == Init /\ [][NextRender]_vars

\* ------------------------- SpecLock: threads inside PantsLogger together
\* Every thread calls every operation of the logger, with one record that
\* every filter lets through; callbacks return, fail, or call the logger.
\* The first thread may become the one that logs to pantsd.
LockRecords ==
  [level : {Error}, target : {<<"engine">>}, module_path : {None}, args : {"msg"}]

LockInitArgs == { <<30, TRUE, FALSE, FALSE, EmptyMap>> }

LockLevelArgs == {30}

NextLock ==
  \/ \E t \in Threads : acquire(t)
  \/ set_thread_destination(1, Pantsd)
  \/ \E t \in Threads, r \in LockRecords : log_enter(t, r)
  \/ \E t \in Threads, res \in [DOMAIN stderr_handlers -> Results] : log_callbacks(t, res)
  \/ \E t \in Threads, id \in Uuids : log_callback_reenters(t, id)
  \/ \E t \in Threads : log_stderr_write(t)
  \/ \E t \in Threads : log_pantsd_write(t)
  \/ \E t \in Threads, c \in StdioHandlers : register_enter(t, c)
  \/ \E t \in Threads : register_insert(t)
  \/ \E t \in Threads, id \in returned : deregister_enter(t, id)
  \/ \E t \in Threads : deregister_remove(t)
  \/ \E t \in Threads, a \in LockInitArgs : init_enter(t, a[1], a[2], a[3], a[4], a[5])
  \/ \E t \in Threads : init_replace(t)
  \/ \E t \in Threads, l \in LockLevelArgs : set_stderr_enter(t, l)
  \/ \E t \in Threads : set_stderr_install(t)
  \/ \E t \in Threads, p \in Openable, l \in LockLevelArgs : set_pantsd_enter(t, p, l)
  \/ \E t \in Threads : set_pantsd_drop(t)
  \/ \E t \in Threads : set_pantsd_install(t)
  \/ \E t \in Threads : flush_enter(t)
  \/ \E t \in Threads : flush_stderr(t)
  \/ \E t \in Threads : flush_pantsd(t)

SpecLock == Init /\ [][NextLock]_vars

\* ================================================================ claims
\* The last operation was a log() call that passed the allow-list filter
\* and resolved the destination to Stderr (Interactive).
LoggedToStderr ==
  /\ last.op = "log"
  /\ ~last.suppressed
  /\ last.destination = Some(Stderr)

\* Handler id reported failure / success for the line of the last log() call.
ReportedErr(id) == \E i \in DOMAIN last.calls[id] : last.calls[id][i].ret = "Err"
ReportedOk(id) == \E i \in DOMAIN last.calls[id] : last.calls[id][i].ret = "Ok"

\* C1: a record routed to Stderr with a non-empty registry of which at least
\* one handler reported failure is handed to stderr_log exactly once.
C1_FailureFallsBackOnce ==
  (LoggedToStderr /\ last.handlers # {} /\ \E id \in last.handlers : ReportedErr(id))
    => last.stderr_log_calls = 1

C1_Witness ==
  /\ LoggedToStderr
  /\ Cardinality(last.handlers) = 2
  /\ \A id \in last.handlers : ReportedErr(id)
  /\ last.stderr_log_calls = 1

\* C2: with an empty registry a record routed to Stderr is handed to
\* stderr_log exactly once, and written there iff the sink's enabled() passes it.
C2_EmptyRegistryGoesToSink ==
  (LoggedToStderr /\ last.handlers = {})
    => /\ last.stderr_log_calls = 1
       /\ last.stderr_written \in {0, 1}
       /\ (last.stderr_written = 1) <=> enabled(stderr_log, last.record)

C2_Witness ==
  /\ LoggedToStderr
  /\ last.handlers = {}
  /\ ~show_rust_3rdparty_logs
  /\ last.record.level > stderr_log.level
  /\ last.stderr_written = 1

\* C3: with at least one handler registered and every handler reporting
\* success, the record is not handed to stderr_log at all.
C3_AllSucceedNoRawWrite ==
  (LoggedToStderr /\ last.handlers # {} /\ \A id \in last.handlers : ReportedOk(id))
    => (last.stderr_log_calls = 0 /\ last.stderr_written = 0)

C3_Witness ==
  /\ LoggedToStderr
  /\ Cardinality(last.handlers) = 2
  /\ \A id \in last.handlers : ReportedOk(id)
  /\ enabled(stderr_log, last.record)
  /\ last.stderr_written = 0

\* C4 as stated: the record reaches stderr_log only if no handler is
\* registered or all registered handlers failed.
C4_FallbackOnlyIfAllFail ==
  (LoggedToStderr /\ last.stderr_log_calls >= 1)
    => (last.handlers = {} \/ \A id \in last.handlers : ReportedErr(id))

\* C4 amended: the record reaches stderr_log iff no handler is registered or
\* at least one registered handler failed; so with one handler succeeding
\* and one failing it is handed to stderr_log, once.
C4_FallbackIffAnyFails ==
  LoggedToStderr
    => /\ (last.stderr_log_calls >= 1)
            <=> (last.handlers = {} \/ \E id \in last.handlers : ReportedErr(id))
       /\ ((\E id \in last.handlers : ReportedOk(id)) /\ (\E id \in last.handlers : ReportedErr(id)))
            => last.stderr_log_calls = 1

C4_Witness ==
  /\ LoggedToStderr
  /\ Cardinality(last.handlers) = 2
  /\ \E id \in last.handlers : ReportedOk(id)
  /\ \E id \in last.handlers : ReportedErr(id)
  /\ last.stderr_log_calls = 1

\* C5: a record routed to Stderr is given to every handler registered at
\* that moment exactly once, as the formatted line, whatever the other
\* handlers returned and whatever the threshold of stderr_log.
C5_EveryHandlerCalledOnce ==
  LoggedToStderr
    => /\ last.handlers = DOMAIN stderr_handlers
       /\ \A id \in DOMAIN stderr_handlers :
            /\ Len(last.calls[id]) = 1
            /\ last.calls[id][1].line = log_string(last.record)

C5_Witness ==
  /\ LoggedToStderr
  /\ Cardinality(last.handlers) = 2
  /\ ~enabled(stderr_log, last.record)
  /\ \E id \in last.handlers : ReportedErr(id)
  /\ \A id \in last.handlers : Len(last.calls[id]) = 1

\* C6: the registry holds exactly the ids register returned and no
\* deregister has removed since, so its size is the number of register
\* calls minus the number of deregister calls that found their id installed.
C6_RegistryIsReturnedMinusRemoved ==
  /\ removed \subseteq returned
  /\ DOMAIN stderr_handlers = returned \ removed
  /\ Cardinality(DOMAIN stderr_handlers) = uuid_count - Cardinality(removed)

C6_Witness ==
  /\ last.op = "deregister_stderr_handler"
  /\ Cardinality(returned) = 2
  /\ removed # {}
  /\ DOMAIN stderr_handlers # {}

\* The destination the innermost scope of task k was given.
innermost(k) == tasks[k].scoped[Len(tasks[k].scoped)]

\* C7: on every thread get_destination() is the value of the innermost scope
\* of the task running there, and without one the thread's own value, which
\* is the last one given to set_thread_destination (initially Stderr) and
\* which no scope entered or left on the thread changes.
C7_DestinationLookup ==
  \A t \in Threads :
    /\ THREAD_DESTINATION[t] = last_set[t]
    /\ \A k \in running_on(t) : get_destination(t) = innermost(k)
    /\ running_on(t) = {} => get_destination(t) = last_set[t]

C7_Witness ==
  /\ last.op = "complete_scope"
  /\ last.ret[2] = Stderr
  /\ running_on(last.ret[1]) = {}
  /\ last_set[last.ret[1]] = Pantsd
  /\ get_destination(last.ret[1]) = Pantsd

\* C8: whenever a scoped task runs, on whichever thread and whatever that
\* thread's own destination has been set to, get_destination() there is the
\* destination its scope was given.
C8_TaskSeesScopedDestination ==
  \A k \in Tasks :
    tasks[k].state = "running" => get_destination(tasks[k].thread) = innermost(k)

C8_Witness ==
  \E k \in Tasks :
    /\ tasks[k].state = "running"
    /\ tasks[k].migrated
    /\ Len(tasks[k].scoped) = 1
    /\ THREAD_DESTINATION[tasks[k].thread] # tasks[k].scoped[1]
    /\ get_destination(tasks[k].thread) = tasks[k].scoped[1]

\* C9: a record whose destination resolves to Pantsd is handed to pantsd_log
\* once and written there iff that sink's enabled() passes it; no handler is
\* called and nothing reaches stderr_log, registered handlers or not.
C9_PantsdOnlyToPantsdSink ==
  (last.op = "log" /\ last.destination = Some(Pantsd))
    => /\ \A id \in last.handlers : last.calls[id] = <<>>
       /\ last.stderr_log_calls = 0
       /\ last.stderr_written = 0
       /\ last.pantsd_log_calls = 1
       /\ (last.pantsd_written = 1) <=> enabled(pantsd_log, last.record)

C9_Witness ==
  /\ last.op = "log"
  /\ last.destination = Some(Pantsd)
  /\ last.handlers # {}
  /\ enabled(stderr_log, last.record)
  /\ last.pantsd_written = 1

\* The claim's condition for a sink to write a record: it has an output
\* target, and the level clears the global threshold or the override
\* registered for exactly the record's domain.
SinkShouldWrite(sink, record) ==
  /\ is_some(sink.inner)
  /\ \/ record.level <= sink.level
     \/ \E domain \in DOMAIN sink.log_domain_filters :
          domain = record.target /\ record.level <= sink.log_domain_filters[domain]

\* C10: the sink a record is handed to writes it iff SinkShouldWrite; in
\* particular a record that clears the global threshold is written whatever
\* the override of its domain, and an empty sink writes nothing.
C10_SinkWritesIffThresholdOrOverride ==
  last.op = "log"
    => /\ last.stderr_log_calls = 1
            => /\ (last.stderr_written = 1) <=> SinkShouldWrite(stderr_log, last.record)
               /\ stderr_log = MaybeWriteLogger_empty => last.stderr_written = 0
       /\ last.pantsd_log_calls = 1
            => /\ (last.pantsd_written = 1) <=> SinkShouldWrite(pantsd_log, last.record)
               /\ pantsd_log = MaybeWriteLogger_empty => last.pantsd_written = 0

\* A record written although the override of its domain is stricter than it.
C10_Witness ==
  /\ last.op = "log"
  /\ last.stderr_written = 1
  /\ last.record.target \in DOMAIN stderr_log.log_domain_filters
  /\ last.record.level > stderr_log.log_domain_filters[last.record.target]

\* The last log() call did nothing with its record: no handler was called
\* and neither sink was handed it.
NothingDone ==
  /\ \A id \in last.handlers : last.calls[id] = <<>>
  /\ last.stderr_log_calls = 0 /\ last.stderr_written = 0
  /\ last.pantsd_log_calls = 0 /\ last.pantsd_written = 0

\* The record of the last log() call comes from a module of an engine package.
FromPantsPackage ==
  /\ is_some(last.record.module_path)
  /\ Head(unwrap(last.record.module_path)) \in PANTS_PACKAGE_NAMES

\* C11 as stated: with show_rust_3rdparty_logs false every record that is
\* not from a module of an engine package is suppressed, those without a
\* module path included.
C11_SuppressedUnlessPantsPackage ==
  (last.op = "log" /\ ~show_rust_3rdparty_logs /\ ~FromPantsPackage)
    => (last.suppressed /\ NothingDone)

\* C11 amended: with show_rust_3rdparty_logs false a record is suppressed
\* (no handler call, nothing to either sink) iff it has a module path whose
\* top-level namespace is no engine package; a record without a module path
\* is not suppressed. With the flag true no record is suppressed.
C11_SuppressedIffForeignModule ==
  last.op = "log"
    => /\ last.suppressed
            <=> (~show_rust_3rdparty_logs /\ is_some(last.record.module_path)
                   /\ ~FromPantsPackage)
       /\ last.suppressed => NothingDone
       /\ ~last.suppressed => is_some(last.destination)

C11_Witness ==
  /\ last.op = "log"
  /\ ~show_rust_3rdparty_logs
  /\ last.suppressed
  /\ last.handlers # {}
  /\ enabled(stderr_log, last.record)

\* With the flag false a record without a module path is logged.
C11_WitnessNoModulePath ==
  /\ last.op = "log"
  /\ ~show_rust_3rdparty_logs
  /\ last.record.module_path = None
  /\ ~last.suppressed
  /\ last.stderr_written = 1

ConfigOps == {"init", "set_stderr_logger", "set_pantsd_logger"}

\* A sink is configured when it holds a writer.
Configured(sink) == is_some(sink.inner)

\* C12: no init, set_stderr_logger or set_pantsd_logger call, successful or
\* failing, leaves the global ceiling less verbose than it found it.
C12_CeilingNeverDecreases ==
  last.op \in ConfigOps => max_level >= last.max_level

\* C13: once init has returned successfully the ceiling is at least as
\* verbose as the threshold of every configured sink, also of a sink that
\* was configured before init at a more verbose level.
C13_CeilingCoversSinks ==
  logger_set =>
    /\ Configured(stderr_log) => max_level >= stderr_log.level
    /\ Configured(pantsd_log) => max_level >= pantsd_log.level

\* C14: set_pantsd_logger with a recognized level and a path that cannot be
\* opened returns the I/O error, leaves the Background sink empty whatever
\* was installed before and leaves the ceiling where it was; a record logged
\* to the Background destination while the sink is empty writes nothing and
\* the call returns.
C14_OpenFailureLeavesBackgroundEmpty ==
  /\ (/\ last.op = "set_pantsd_logger"
      /\ try_into(last.args[2]).ok
      /\ last.args[1] \notin Openable)
       => /\ last.ret = ErrorOpening
          /\ pantsd_log = MaybeWriteLogger_empty
          /\ max_level = last.max_level
  /\ (/\ last.op = "log"
      /\ last.destination = Some(Pantsd)
      /\ ~Configured(pantsd_log))
       => /\ last.pantsd_log_calls = 1
          /\ last.pantsd_written = 0
          /\ last.stderr_written = 0

C14_Witness ==
  /\ last.op = "set_pantsd_logger"
  /\ last.ret = ErrorOpening
  /\ Configured(last.pantsd_log)
  /\ try_into(last.args[2]).level > max_level

\* A record of a level the dropped sink took goes to the Background
\* destination after the failed call.
C14_WitnessLaterRecord ==
  /\ last.op = "log"
  /\ last.destination = Some(Pantsd)
  /\ ~Configured(pantsd_log)
  /\ last.record.level = Error
  /\ last.pantsd_log_calls = 1

\* C15: after any failing set_pantsd_logger call, the one with an
\* unrecognized level included, the Background sink is empty.
C15_AnyFailureLeavesBackgroundEmpty ==
  (last.op = "set_pantsd_logger" /\ last.ret # "Ok")
    => pantsd_log = MaybeWriteLogger_empty

\* C16: set_stderr_logger with an unrecognized level returns the
\* invalid-level error and leaves the Interactive sink (threshold, overrides,
\* writer) and the ceiling as it found them.
C16_InvalidLevelChangesNothing ==
  (last.op = "set_stderr_logger" /\ ~try_into(last.args[1]).ok)
    => /\ last.ret = UnrecognizedLevel
       /\ stderr_log = last.stderr_log
       /\ max_level = last.max_level

C16_Witness ==
  /\ last.op = "set_stderr_logger"
  /\ last.ret = UnrecognizedLevel
  /\ Configured(stderr_log)
  /\ stderr_log.log_domain_filters # EmptyMap

\* The keys under which the registry holds the ConsoleUI's interceptor.
UIHandlers == {id \in DOMAIN stderr_handlers : stderr_handlers[id] = "ui_handler"}

\* C17: initialize on a ConsoleUI that holds an Instance returns the error
\* and leaves the Instance (mapping, widgets, task handle, registry key), the
\* registry and the number of spawned tasks as it found them.
C17_SecondInitializeRefused ==
  (last.op = "initialize" /\ is_some(last.instance))
    => /\ last.ret = MultipleUIs
       /\ instance = last.instance
       /\ stderr_handlers = last.stderr_handlers
       /\ spawn_count = last.spawn_count

C17_Witness ==
  /\ last.op = "initialize"
  /\ last.ret = MultipleUIs
  /\ is_some(instance)
  /\ unwrap(instance).tasks_to_display # <<>>
  /\ unwrap(instance).bars # <<>>
  /\ spawned[unwrap(instance).multi_progress_task] = "running"

\* C18: teardown on a ConsoleUI without an Instance returns Ok at once and
\* changes nothing: there is still no Instance and the registry is as the
\* call found it; so a second teardown does what the first did.
C18_IdleTeardownIsNoOp ==
  (last.op = "teardown" /\ last.ret # "Pending" /\ last.awaited = None)
    => /\ last.ret = "Ok"
       /\ last.instance = None
       /\ instance = None
       /\ stderr_handlers = last.stderr_handlers
       /\ spawn_count = last.spawn_count

C18_Witness ==
  /\ last.op = "teardown"
  /\ last.ret = "Ok"
  /\ last.awaited = None
  /\ instance = None
  /\ stderr_handlers # EmptyMap
  /\ removed # {}

\* C19: the registry holds an interceptor of the ConsoleUI iff the ConsoleUI
\* holds an Instance, and then exactly one, under the key the Instance
\* stores; a successful initialize adds exactly that key, and a teardown,
\* direct or from write_stdout or with_console_ui_disabled, removes exactly
\* the key of the Instance it takes.
C19_HandlerRegisteredIffActive ==
  /\ UIHandlers = IF is_some(instance) THEN {unwrap(instance).logger_handle} ELSE {}
  /\ (last.op = "initialize" /\ last.ret = "Ok")
       => /\ is_some(instance)
          /\ DOMAIN stderr_handlers =
               DOMAIN last.stderr_handlers \cup {unwrap(instance).logger_handle}
          /\ unwrap(instance).logger_handle \notin DOMAIN last.stderr_handlers
  /\ (last.op \in {"teardown", "write_stdout", "with_console_ui_disabled"}
        /\ last.ret = "Pending")
       => /\ last.logger_handle \in DOMAIN last.stderr_handlers
          /\ DOMAIN stderr_handlers = DOMAIN last.stderr_handlers \ {last.logger_handle}
          /\ \A id \in DOMAIN stderr_handlers :
               stderr_handlers[id] = last.stderr_handlers[id]

C19_Witness ==
  /\ last.op = "with_console_ui_disabled"
  /\ last.ret = "Pending"
  /\ instance = None
  /\ stderr_handlers # EmptyMap
  /\ last.logger_handle \in removed

\* C20: after a render tick on a ConsoleUI that holds an Instance the keys
\* of tasks_to_display are exactly the labels of that tick's heavy_hitters
\* poll, each with the duration polled; so a workunit is gone with the first
\* poll that misses it, and the mapping never holds more than
\* max_displayed_swimlanes entries.
C20_MappingIsLastPoll ==
  (last.op = "render" /\ last.args # <<>>)
    => LET tasks_to_display == unwrap(instance).tasks_to_display
           heavy_hitters == last.args[1]
       IN /\ keys(tasks_to_display) = keys(heavy_hitters)
          /\ \A label \in keys(heavy_hitters) :
               get(tasks_to_display, label) = get(heavy_hitters, label)
          /\ Len(tasks_to_display) = Cardinality(keys(tasks_to_display))
          /\ Len(tasks_to_display) <= max_displayed_swimlanes

\* The second full poll, one label apart from the first, on a full mapping.
C20_Witness ==
  /\ last.op = "render"
  /\ last.args # <<>>
  /\ Len(last.args[1]) = max_displayed_swimlanes
  /\ Len(unwrap(instance).tasks_to_display) = max_displayed_swimlanes
  /\ Len(unwrap(instance).bars) = 2 * max_displayed_swimlanes
  /\ ~contains_key(unwrap(instance).tasks_to_display, "w1")

\* A workunit of the mapping gets its new duration and one is pruned.
C20_WitnessPruned ==
  /\ last.op = "render"
  /\ last.args # <<>>
  /\ get_label_from_heavy_hitters(unwrap(instance).tasks_to_display)
       = << <<<<"(Waiting) ">>, "b">>, <<<<1, ".", 23, "s ">>, "a">> >>
  /\ Len(unwrap(instance).bars) > 2

\* A render tick on a ConsoleUI that holds an Instance is the step.
RenderTick ==
  /\ is_some(instance)
  /\ is_some(instance')
  /\ last' # last
  /\ last'.op = "render"
  /\ last'.args # <<>>

\* C21: two workunits that are in tasks_to_display before a render tick and
\* in that tick's poll are in the same relative order after it, whatever else
\* the tick inserts or prunes.
C21_OrderPreserved ==
  [][RenderTick =>
       LET before == unwrap(instance).tasks_to_display
           after == unwrap(instance').tasks_to_display
           heavy_hitters == last'.args[1]
       IN \A x, y \in keys(before) \cap keys(heavy_hitters) :
            (get_index_of(before, x) < get_index_of(before, y))
              => /\ contains_key(after, x)
                 /\ contains_key(after, y)
                 /\ get_index_of(after, x) < get_index_of(after, y)]_vars

\* C22: after a render tick the swimlanes are, one for one and in order, the
\* labels of tasks_to_display: as many swimlanes as labels, swimlane i
\* showing label i (so none was added where one existed and none is left
\* beyond the labels).
C22_BarsAreLabels ==
  (last.op = "render" /\ last.args # <<>>)
    => unwrap(instance).bars
         = get_label_from_heavy_hitters(unwrap(instance).tasks_to_display)

TeardownPaths == {"teardown", "write_stdout", "with_console_ui_disabled"}

\* The last step is the end of a call that tore the session down and
\* awaited the background task.
TornDown ==
  /\ last.op \in TeardownPaths
  /\ last.ret # "Pending"
  /\ is_some(last.awaited)

\* C24: a failure of the background task comes out of every call that tears
\* the session down (teardown, write_stdout, with_console_ui_disabled) as
\* the error it returns, never as a panic, and leaves the ConsoleUI without
\* an Instance and without its interceptor in the registry.
C24_FailureReportedNotPanic ==
  (TornDown /\ last.result = "Err")
    => /\ last.ret = FailedToRender
       /\ instance = None
       /\ UIHandlers = {}

\* Thread t is in the part of log() that calls the interceptor callbacks, or
\* in the part that writes the record to stderr_log.
InCallbacks(t) == At(t, "log", "callbacks")
InFallbackWrite(t) == At(t, "log", "stderr_write")

\* C25: log() releases the lock of the interceptor registry before it invokes
\* the callbacks and before the fallback write to the Interactive sink: no
\* thread holds that lock while it runs a callback or writes the sink.
C25_RegistryLockReleasedBeforeCallbacks ==
  \A t \in Threads :
    (InCallbacks(t) \/ InFallbackWrite(t)) => locks["stderr_handlers"] # t

\* Thread t waits for a Mutex that a thread holds; the thread that holds it.
Waiting(t) == pc[t].at = "lock" /\ locks[Head(pc[t].to_lock)] # 0
Holder(t) == locks[Head(pc[t].to_lock)]

\* A callback called by thread t has called back into the logger.
Reentered(t) == pc[t].at = "lock" /\ pc[t].then = "reentered"

\* The Mutexes thread t holds.
Held(t) == {l \in Mutexes : locks[l] = t}

\* From thread t, following at most n times the holder of the Mutex waited
\* for, one comes to a thread that waits for nothing, or to one whose
\* callback has called back into the logger.
RECURSIVE EndsInRunning(_, _)
EndsInRunning(t, n) ==
  \/ ~Waiting(t)
  \/ Reentered(t)
  \/ n > 0 /\ EndsInRunning(Holder(t), n - 1)

\* C26: threads calling log, register, deregister, set_stderr_logger,
\* set_pantsd_logger, init and flush concurrently never wait for each other in
\* a circle: every thread that waits for a lock waits, directly or through
\* other waiting threads, for a thread that can go on, unless a callback has
\* called back into the logger. A callback that does (it logs a record for
\* Stderr, registers or deregisters) waits for the registry lock its own
\* thread holds, and never gets it.
C26_NoDeadlockUnlessReentrant ==
  /\ \A t \in Threads : EndsInRunning(t, Cardinality(Threads))
  /\ \A t \in Threads : Reentered(t) => Holder(t) = t
  /\ \A t \in Threads : pc[t].at # "reentered"

\* A thread waits for a lock while it holds another, and the thread it waits
\* for holds two; no callback has called back.
C26_Witness ==
  /\ \A t \in Threads : ~Reentered(t)
  /\ \E t \in Threads :
       /\ Waiting(t)
       /\ Held(t) # {}
       /\ Holder(t) # t
       /\ Cardinality(Held(Holder(t))) = 2

\* A callback has called back into the logger, and another thread waits for
\* the registry lock behind it.
C26_WitnessReentered ==
  \E t, u \in Threads :
    /\ Reentered(t)
    /\ u # t
    /\ Waiting(u)
    /\ Holder(u) = t

\* C27: a render tick on an Active session never uses a widget index that is
\* out of range, whatever the length of the widget array before it and
\* whatever poll of 0 to 8 units it gets: render returns normally.
C27_RenderReturnsNormally ==
  (last.op = "render" /\ last.args # <<>>) => last.ret = "Ok"

\* Thread u is in a set_pantsd_logger call that has dropped the existing
\* logger, has opened its file and has not installed the new logger yet.
InReplacement(u) ==
  /\ pc[u].op = "set_pantsd_logger"
  /\ pc[u].at \in {"lock", "install"}
  /\ pc[u].then = "install"

\* The logger that call found and dropped, and the one it is to install.
OldSink(u) == pc[u].args[3]
NewSink(u) ==
  MaybeWriteLogger_new(pc[u].args[1], try_into(pc[u].args[2]).level,
                       show_log_domain, log_level_filters)

\* The sink writes the record it is handed.
Accepts(sink, record) == MaybeWriteLogger_log(sink, record) = 1

\* Thread t is in a log() call for Pantsd and hands its record to pantsd_log.
InPantsdWrite(t) == At(t, "log", "pantsd_write")

\* C28 (as stated): set_pantsd_logger is atomic for the log calls running
\* beside it: a record handed to the Background sink while a successful call
\* is in progress meets the old sink or the new one, never an empty one in
\* between, so a record both of them accept is not dropped.
C28_ReplacementIsAtomic ==
  \A t, u \in Threads :
    (/\ InPantsdWrite(t)
     /\ InReplacement(u)
     /\ Accepts(OldSink(u), pc[t].args[1])
     /\ Accepts(NewSink(u), pc[t].args[1]))
    => Accepts(pantsd_log, pc[t].args[1])

\* Thread u takes the step of set_pantsd_logger that drops the existing
\* logger; thread u takes the step that installs the new one.
DropsSink(u) == At(u, "set_pantsd_logger", "drop") /\ pc'[u].at # "drop"
InstallsSink(u) == At(u, "set_pantsd_logger", "install") /\ pc'[u] = Idle

\* C28 (amended): set_pantsd_logger replaces the Background sink in two
\* steps: it first leaves an empty sink in place of the existing one, which
\* writes no record, and the sink stays empty until a set_pantsd_logger call
\* installs its new sink.
C28_SinkEmptyUntilInstalled ==
  [][/\ \A u \in Threads :
          DropsSink(u) =>
            /\ pantsd_log' = MaybeWriteLogger_empty
            /\ \A r \in LockRecords : ~Accepts(pantsd_log', r)
     /\ (pantsd_log = MaybeWriteLogger_empty /\ pantsd_log' # pantsd_log) =>
          \E u \in Threads : InstallsSink(u)]_vars

\* A record that the dropped sink accepted is handed to the empty sink while
\* the call that dropped it has not installed the new one.
C28_Witness ==
  \E t, u \in Threads :
    /\ InPantsdWrite(t)
    /\ InReplacement(u)
    /\ Accepts(OldSink(u), pc[t].args[1])
    /\ pantsd_log = MaybeWriteLogger_empty

\* C29: write_stderr never fails: on an Active session the message is printed
\* above the swimlanes however many widgets there are, none included; on an
\* Idle renderer it goes to raw stderr.
C29_WriteStderrNeverFails ==
  last.op = "write_stderr" => last.ret \in Seq({"Ok", "println", "eprint", "msg"})

============================================================================
